---------------------------- MODULE Spec2Model ----------------------------
(***************************************************************************)
(* Telemetry metrics aggregator (src/index.py): dataset loading at import  *)
(* time, per-region metrics, and the POST / request handler.               *)
(*                                                                         *)
(* Numbers.  Python floats are modelled in fixed point: an integer n       *)
(* stands for the decimal n / Unit (Unit = 10^6).  All inputs have at most *)
(* 6 decimals, uptime inputs at most 4, so that f / 100.0 is exact.        *)
(* round(x, d) is round-half-even on the decimal value.                    *)
(*                                                                         *)
(* Strings are sequences of one-character strings, so that strip() and     *)
(* lower() are computed and not assumed.                                   *)
(***************************************************************************)
EXTENDS Integers, Sequences, FiniteSets, TLC

VARIABLES
    phase,      \* "init" | "loading" | "serving" | "failed" : import of the module
    present,    \* which of the six candidate paths exist (environment)
    path,       \* index of the candidate find_data_file returned, 0 before
    rows,       \* the parsed rows handed to _ingest_row so far, in file order
    blanks,     \* blank lines skipped so far (JSON Lines only)
    records,    \* load_records' local list
    loc,        \* locals of the last _ingest_row call
    failure,    \* exception that aborted the import, "none" otherwise
    RECORDS,    \* the module global
    req,        \* per worker thread: the request it is handling
    call        \* SpecEngine: one direct compute_for_region call and its result

vars == <<phase, present, path, rows, blanks, records, loc, failure, RECORDS, req, call>>

----------------------------------------------------------------------------
(* Bounds *)

MaxRows == 2
MaxRegions == 2
MaxShort == 3
MaxN == 21

Unit == 1000 * 1000

----------------------------------------------------------------------------
(* JSON values as json.loads produces them *)

JAbsent == [t |-> "absent", n |-> 0, s |-> <<>>]
JNull == [t |-> "null", n |-> 0, s |-> <<>>]
JBool(b) == [t |-> "bool", n |-> IF b THEN 1 ELSE 0, s |-> <<>>]
JNum(n) == [t |-> "num", n |-> n, s |-> <<>>]
JStr(s) == [t |-> "str", n |-> 0, s |-> s]
\* a non-empty nested value such as [1] or {"x": 1}
JNested == [t |-> "nested", n |-> 0, s |-> <<>>]

Row(region, latency_ms, latency, uptime, up, is_up) ==
    [region |-> region, latency_ms |-> latency_ms, latency |-> latency,
     uptime |-> uptime, up |-> up, is_up |-> is_up]

\* Python's None / a float, for values the program holds
None == [none |-> TRUE, f |-> 0]
Some(f) == [none |-> FALSE, f |-> f]

----------------------------------------------------------------------------
(* str methods *)

IsSpace(c) == c = " "

RECURSIVE lstrip(_)
lstrip(s) == IF s # <<>> /\ IsSpace(Head(s)) THEN lstrip(Tail(s)) ELSE s

RECURSIVE rstrip(_)
rstrip(s) ==
    IF s # <<>> /\ IsSpace(s[Len(s)]) THEN rstrip(SubSeq(s, 1, Len(s) - 1)) ELSE s

strip(s) == rstrip(lstrip(s))

LowerChar(c) == CASE c = "A" -> "a" [] c = "B" -> "b" [] OTHER -> c

lower(s) == [i \in 1..Len(s) |-> LowerChar(s[i])]

----------------------------------------------------------------------------
(* dict.get, "in", truthiness, float() *)

has(row, key) == row[key].t # "absent"

get(row, key) == IF has(row, key) THEN row[key] ELSE JNull

truthy(v) ==
    CASE v.t = "null" -> FALSE
      [] v.t = "bool" -> v.n = 1
      [] v.t = "num" -> v.n # 0
      [] v.t = "str" -> v.s # <<>>
      [] OTHER -> TRUE

Digits == <<"0", "1", "2", "3", "4", "5", "6", "7", "8", "9">>

IsDigit(c) == \E i \in 1..Len(Digits) : Digits[i] = c

DigitVal(c) == (CHOOSE i \in 1..Len(Digits) : Digits[i] = c) - 1

RECURSIVE DigitsValue(_)
DigitsValue(s) ==
    IF s = <<>> THEN 0
    ELSE 10 * DigitsValue(SubSeq(s, 1, Len(s) - 1)) + DigitVal(s[Len(s)])

\* float(v): [ok |-> FALSE] stands for the TypeError / ValueError it raises
float(v) ==
    CASE v.t = "bool" -> [ok |-> TRUE, f |-> v.n * Unit]
      [] v.t = "num" -> [ok |-> TRUE, f |-> v.n]
      [] v.t = "str" ->
            LET d == strip(v.s) IN
            IF d # <<>> /\ \A i \in 1..Len(d) : IsDigit(d[i])
            THEN [ok |-> TRUE, f |-> DigitsValue(d) * Unit]
            ELSE [ok |-> FALSE, f |-> 0]
      [] OTHER -> [ok |-> FALSE, f |-> 0]

Min(a, b) == IF a < b THEN a ELSE b
Max(a, b) == IF a > b THEN a ELSE b

----------------------------------------------------------------------------
(* coerce_uptime *)

coerce_uptime_noclamp(v) ==
    IF v.t = "null" THEN None
    ELSE IF v.t = "bool" THEN Some(v.n * Unit)
    ELSE LET r == float(v) IN
         IF ~r.ok THEN None
         ELSE IF r.f > Unit THEN Some(r.f \div 100)
         ELSE Some(r.f)

coerce_uptime(v) ==
    IF v.t = "null" THEN None
    ELSE IF v.t = "bool" THEN Some(v.n * Unit)
    ELSE LET r == float(v) IN
         IF ~r.ok THEN None
         ELSE IF r.f > Unit THEN Some(Max(0, Min(Unit, r.f \div 100)))
         ELSE Some(Max(0, Min(Unit, r.f)))

----------------------------------------------------------------------------
(* _ingest_row *)

\* row.get("region") or ""
RegionOrEmpty(row) == IF truthy(get(row, "region")) THEN get(row, "region") ELSE JStr(<<>>)

\* row.get("latency_ms") if "latency_ms" in row else row.get("latency")
LatencyField(row) == IF has(row, "latency_ms") THEN get(row, "latency_ms") ELSE get(row, "latency")

\* up = row.get("uptime"); if up is None: up = row.get("up", row.get("is_up"))
UptimeField(row) ==
    IF get(row, "uptime").t # "null" THEN get(row, "uptime")
    ELSE IF has(row, "up") THEN row["up"] ELSE get(row, "is_up")

NoLocals == [region |-> <<>>, up |-> JNull, uptime |-> None, raised |-> FALSE, appended |-> FALSE]

\* The call's outcome: the list after the call, the locals, and whether an
\* exception left the function (.strip() on a value that is no str).
ingest_row_no_fallback(row, recs) ==
    IF RegionOrEmpty(row).t # "str"
    THEN [records |-> recs, loc |-> [NoLocals EXCEPT !.raised = TRUE]]
    ELSE LET region == lower(strip(RegionOrEmpty(row).s))
             up == UptimeField(row)
             uptime == coerce_uptime(up)
             lat == float(get(row, "latency_ms"))
             l == [region |-> region, up |-> up, uptime |-> uptime,
                   raised |-> FALSE, appended |-> FALSE]
         IN IF ~lat.ok THEN [records |-> recs, loc |-> l]
            ELSE IF region # <<>>
            THEN [records |-> Append(recs, [region |-> region, latency_ms |-> lat.f,
                                            uptime |-> uptime]),
                  loc |-> [l EXCEPT !.appended = TRUE]]
            ELSE [records |-> recs, loc |-> l]

ingest_row(row, recs) ==
    IF RegionOrEmpty(row).t # "str"
    THEN [records |-> recs, loc |-> [NoLocals EXCEPT !.raised = TRUE]]
    ELSE LET region == lower(strip(RegionOrEmpty(row).s))
             up == UptimeField(row)
             uptime == coerce_uptime(up)
             lat == float(LatencyField(row))
             l == [region |-> region, up |-> up, uptime |-> uptime,
                   raised |-> FALSE, appended |-> FALSE]
         IN IF ~lat.ok THEN [records |-> recs, loc |-> l]
            ELSE IF region # <<>>
            THEN [records |-> Append(recs, [region |-> region, latency_ms |-> lat.f,
                                            uptime |-> uptime]),
                  loc |-> [l EXCEPT !.appended = TRUE]]
            ELSE [records |-> recs, loc |-> l]

----------------------------------------------------------------------------
(* find_data_file and load_records, run by RECORDS = load_records() at import *)

NumCandidates == 6

\* candidates 1, 3, 5 are data/telemetry.jsonl, candidates 2, 4, 6 data/telemetry.json
IsJsonl(p) == p % 2 = 1

\* the first existing candidate, 0 for FileNotFoundError
find_data_file ==
    IF present = {} THEN 0 ELSE CHOOSE p \in present : \A o \in present : p <= o

LoadVarsUnchanged == UNCHANGED <<present, RECORDS, req, call>>

find_data_file_raises ==
    /\ phase = "init"
    /\ find_data_file = 0
    /\ phase' = "failed"
    /\ failure' = "FileNotFoundError"
    /\ UNCHANGED <<path, rows, blanks, records, loc>>
    /\ LoadVarsUnchanged

\* path.suffix == ".jsonl": iterate the lines
load_open_jsonl ==
    /\ phase = "init"
    /\ find_data_file # 0
    /\ IsJsonl(find_data_file)
    /\ path' = find_data_file
    /\ phase' = "loading"
    /\ UNCHANGED <<rows, blanks, records, loc, failure>>
    /\ LoadVarsUnchanged

\* json.load gave a list, or a dict holding "records"
load_open_json ==
    /\ phase = "init"
    /\ find_data_file # 0
    /\ ~IsJsonl(find_data_file)
    /\ path' = find_data_file
    /\ phase' = "loading"
    /\ UNCHANGED <<rows, blanks, records, loc, failure>>
    /\ LoadVarsUnchanged

\* json.load gave something that is no list: RuntimeError
load_not_a_list ==
    /\ phase = "init"
    /\ find_data_file # 0
    /\ ~IsJsonl(find_data_file)
    /\ path' = find_data_file
    /\ phase' = "failed"
    /\ failure' = "RuntimeError: not an array"
    /\ UNCHANGED <<rows, blanks, records, loc>>
    /\ LoadVarsUnchanged

\* a blank line of a JSON Lines file: continue
load_blank_line ==
    /\ phase = "loading"
    /\ IsJsonl(path)
    /\ Len(rows) + blanks < MaxRows
    /\ blanks' = blanks + 1
    /\ UNCHANGED <<phase, path, rows, records, loc, failure>>
    /\ LoadVarsUnchanged

\* one row of the file: _ingest_row(row, records); an exception leaving it
\* leaves load_records and the import
load_row(RowSet) ==
    /\ phase = "loading"
    /\ Len(rows) + blanks < MaxRows
    /\ \E row \in RowSet :
         LET r == ingest_row(row, records) IN
         /\ rows' = Append(rows, row)
         /\ records' = r.records
         /\ loc' = r.loc
         /\ IF r.loc.raised
            THEN phase' = "failed" /\ failure' = "AttributeError"
            ELSE UNCHANGED <<phase, failure>>
    /\ UNCHANGED <<path, blanks>>
    /\ LoadVarsUnchanged

\* end of file: "if not records: raise RuntimeError", else RECORDS = records
load_return_unchecked ==
    /\ phase = "loading"
    /\ phase' = "serving"
    /\ RECORDS' = records
    /\ UNCHANGED <<present, path, rows, blanks, records, loc, failure, req, call>>

load_return ==
    /\ phase = "loading"
    /\ IF records = <<>>
       THEN /\ phase' = "failed"
            /\ failure' = "RuntimeError: no usable rows"
            /\ UNCHANGED RECORDS
       ELSE /\ phase' = "serving"
            /\ RECORDS' = records
            /\ UNCHANGED failure
    /\ UNCHANGED <<present, path, rows, blanks, records, loc, req, call>>

----------------------------------------------------------------------------
(* mean, percentile, round, compute_for_region *)

RECURSIVE Sum(_)
Sum(values) == IF values = <<>> THEN 0 ELSE Head(values) + Sum(Tail(values))

RECURSIVE Insert(_, _)
Insert(v, s) ==
    IF s = <<>> THEN <<v>>
    ELSE IF v < Head(s) THEN <<v>> \o s
    ELSE <<Head(s)>> \o Insert(v, Tail(s))

RECURSIVE sorted(_)
sorted(values) ==
    IF values = <<>> THEN <<>> ELSE Insert(values[Len(values)], sorted(SubSeq(values, 1, Len(values) - 1)))

\* a float result before rounding, as the fraction num / den
Frac(num, den) == [num |-> num, den |-> den]

mean(values) == IF values = <<>> THEN Frac(0, 1) ELSE Frac(Sum(values), Len(values))

\* math.ceil(a / b) for b > 0
Ceil(a, b) == -((-a) \div b)

percentile_floor(values, q) ==
    IF values = <<>> THEN Frac(0, 1)
    ELSE LET s == sorted(values)
             k == Max(0, Min(Len(s) - 1, (q * Len(s)) \div 100))
         IN Frac(s[k + 1], 1)

percentile(values, q) ==
    IF values = <<>> THEN Frac(0, 1)
    ELSE LET s == sorted(values)
             k == Max(0, Min(Len(s) - 1, Ceil(q * Len(s), 100) - 1))
         IN Frac(s[k + 1], 1)

\* round(x, ndigits): the nearest multiple of 10^-ndigits, ties to even
round(x, ndigits) ==
    LET step == 10 ^ (6 - ndigits)
        D == x.den * step
        k == x.num \div D
        rem == x.num - k * D
        up == (2 * rem > D) \/ (2 * rem = D /\ k % 2 = 1)
    IN (IF up THEN k + 1 ELSE k) * step

LatencyDigits == 4
UptimeDigits == 6
Q95 == 95

Project(recs, field) == [i \in 1..Len(recs) |-> recs[i][field]]

\* r = region.lower().strip()
NormalizeRegion(region) == strip(lower(region))

\* [x["latency_ms"] for x in RECORDS if x["region"] == r]
Latencies(r) == Project(SelectSeq(RECORDS, LAMBDA x : x.region = r), "latency_ms")

\* [x["uptime"] for x in RECORDS if x["region"] == r and x["uptime"] is not None]
Uptimes_null_as_zero(r) ==
    Project(Project(SelectSeq(RECORDS, LAMBDA x : x.region = r), "uptime"), "f")

Uptimes(r) ==
    Project(Project(SelectSeq(RECORDS, LAMBDA x : x.region = r /\ ~x.uptime.none), "uptime"), "f")

\* int(sum(1 for v in latencies if v > threshold_ms))
Breaches_ge(latencies, threshold_ms) ==
    Len(SelectSeq(latencies, LAMBDA v : v >= threshold_ms))

Breaches(latencies, threshold_ms) ==
    Len(SelectSeq(latencies, LAMBDA v : v > threshold_ms))

compute_for_region(region, threshold_ms) ==
    LET r == NormalizeRegion(region)
        latencies == Latencies(r)
        uptimes == Uptimes(r)
    IN [avg_latency |-> round(mean(latencies), LatencyDigits),
        p95_latency |-> round(percentile(latencies, Q95), LatencyDigits),
        avg_uptime |-> round(IF uptimes # <<>> THEN mean(uptimes) ELSE Frac(0, 1), UptimeDigits),
        breaches |-> Breaches(latencies, threshold_ms)]

----------------------------------------------------------------------------
(* MetricsRequest validation and post_metrics, one request per worker thread *)

Workers == {1, 2}

IdleReq == [pc |-> "idle", regions |-> <<>>, threshold_ms |-> 0, i |-> 0, out |-> <<>>, calls |-> 0]

\* regions: List[str] = Field(..., min_items=1); threshold_ms: float = Field(..., gt=0)
MetricsRequestValid_ge(regions, threshold_ms) == Len(regions) >= 1 /\ threshold_ms >= 0

MetricsRequestValid(regions, threshold_ms) == Len(regions) >= 1 /\ threshold_ms > 0

\* out[k] = v on a dict, kept as the sequence of its items in insertion order
DictSet_append(out, k, v) == Append(out, [key |-> k, val |-> v])

DictSet(out, k, v) ==
    IF \E j \in 1..Len(out) : out[j].key = k
    THEN [j \in 1..Len(out) |-> IF out[j].key = k THEN [key |-> k, val |-> v] ELSE out[j]]
    ELSE Append(out, [key |-> k, val |-> v])

SeqsUpTo(S, n) == UNION {[1..k -> S] : k \in 0..n}

\* the region strings and thresholds requests are made of
RequestRegions == {<<"a">>, <<"A", " ">>}
RequestThresholds == {0, 100 * Unit}

ReqVarsUnchanged == UNCHANGED <<phase, present, path, rows, blanks, records, loc, failure, call>>

\* the body fails validation: 422 before post_metrics is entered
reject_request(w) ==
    /\ phase = "serving"
    /\ req[w].pc = "idle"
    /\ \E regions \in SeqsUpTo(RequestRegions, MaxRegions), threshold_ms \in RequestThresholds :
         /\ ~MetricsRequestValid(regions, threshold_ms)
         /\ req' = [req EXCEPT ![w] = [IdleReq EXCEPT !.pc = "rejected", !.regions = regions,
                                                      !.threshold_ms = threshold_ms]]
    /\ UNCHANGED RECORDS
    /\ ReqVarsUnchanged

\* the body is valid: post_metrics(body) starts with out = {}
post_metrics_enter(w) ==
    /\ phase = "serving"
    /\ req[w].pc = "idle"
    /\ \E regions \in SeqsUpTo(RequestRegions, MaxRegions), threshold_ms \in RequestThresholds :
         /\ MetricsRequestValid(regions, threshold_ms)
         /\ req' = [req EXCEPT ![w] = [IdleReq EXCEPT !.pc = "running", !.regions = regions,
                                                      !.threshold_ms = threshold_ms, !.i = 1]]
    /\ UNCHANGED RECORDS
    /\ ReqVarsUnchanged

\* one iteration of "for r in body.regions: out[r] = compute_for_region(r, ...)"
post_metrics_step_filtering(w) ==
    /\ req[w].pc = "running"
    /\ req[w].i <= Len(req[w].regions)
    /\ LET r == req[w].regions[req[w].i] IN
         /\ req' = [req EXCEPT ![w].out = DictSet(@, r, compute_for_region(r, req[w].threshold_ms)),
                               ![w].i = @ + 1,
                               ![w].calls = @ + 1]
         /\ RECORDS' = SelectSeq(RECORDS, LAMBDA x : x.region = NormalizeRegion(r))
    /\ ReqVarsUnchanged

post_metrics_step(w) ==
    /\ req[w].pc = "running"
    /\ req[w].i <= Len(req[w].regions)
    /\ LET r == req[w].regions[req[w].i] IN
         req' = [req EXCEPT ![w].out = DictSet(@, r, compute_for_region(r, req[w].threshold_ms)),
                            ![w].i = @ + 1,
                            ![w].calls = @ + 1]
    /\ UNCHANGED RECORDS
    /\ ReqVarsUnchanged

\* return {"regions": out}
post_metrics_return(w) ==
    /\ req[w].pc = "running"
    /\ req[w].i > Len(req[w].regions)
    /\ req' = [req EXCEPT ![w].pc = "done"]
    /\ UNCHANGED RECORDS
    /\ ReqVarsUnchanged

\* the response is sent; the worker takes the next request
respond(w) ==
    /\ req[w].pc \in {"done", "rejected"}
    /\ req' = [req EXCEPT ![w] = IdleReq]
    /\ UNCHANGED RECORDS
    /\ ReqVarsUnchanged

----------------------------------------------------------------------------
(* Spec: the process from import to serving, with a small data file *)

\* no candidate exists | data/telemetry.jsonl in the cwd | the two .json after it
PresentSets == {S \in {{}, {1}, {2, 3}} : S \subseteq 1..NumCandidates}

\* " A" 100.0 95 | "b" with latency only and no uptime | no latency | region 5
SmallRows ==
    { Row(JStr(<<" ", "A">>), JNum(100 * Unit), JAbsent, JNum(95 * Unit), JAbsent, JAbsent),
      Row(JStr(<<"b">>), JAbsent, JNum(250 * Unit), JAbsent, JAbsent, JAbsent),
      Row(JStr(<<"a">>), JAbsent, JAbsent, JNum(Unit), JAbsent, JAbsent),
      Row(JNum(5 * Unit), JNum(100 * Unit), JAbsent, JAbsent, JAbsent, JAbsent) }

NoCall == [state |-> "none", region |-> <<>>, threshold_ms |-> 0,
           ret |-> [avg_latency |-> 0, p95_latency |-> 0, avg_uptime |-> 0, breaches |-> 0]]

Init ==
    /\ phase = "init"
    /\ present \in PresentSets
    /\ path = 0
    /\ rows = <<>>
    /\ blanks = 0
    /\ records = <<>>
    /\ loc = NoLocals
    /\ failure = "none"
    /\ RECORDS = <<>>
    /\ req = [w \in Workers |-> IdleReq]
    /\ call = NoCall

load_small_row == load_row(SmallRows)

Next ==
    \/ find_data_file_raises
    \/ load_open_jsonl
    \/ load_open_json
    \/ load_not_a_list
    \/ load_blank_line
    \/ load_small_row
    \/ load_return
    \/ \E w \in Workers :
         \/ reject_request(w)
         \/ post_metrics_enter(w)
         \/ post_metrics_step(w)
         \/ post_metrics_return(w)
         \/ respond(w)

Spec == Init /\ [][Next]_vars

----------------------------------------------------------------------------
(* SpecLoad: the loader alone, over rows of every shape *)

RegionValues ==
    { JAbsent, JNull, JNum(0), JNum(5 * Unit), JBool(TRUE), JBool(FALSE), JNested,
      JStr(<<>>), JStr(<<" ">>), JStr(<<"a">>), JStr(<<" ", "A", " ">>),
      JStr(<<"B", "a">>), JStr(<<"a", " ", "b">>) }

\* <<latency_ms, latency>>
LatencyValues ==
    { <<JNum(100 * Unit), JAbsent>>, <<JNum(1234567), JAbsent>>, <<JNum(-5 * Unit), JAbsent>>,
      <<JAbsent, JNum(250 * Unit)>>, <<JNull, JNum(250 * Unit)>>,
      <<JNum(100 * Unit), JNum(250 * Unit)>>, <<JStr(<<"a">>), JNum(250 * Unit)>>,
      <<JAbsent, JAbsent>>, <<JAbsent, JNull>>, <<JAbsent, JStr(<<"7">>)>>,
      <<JStr(<<"2", "5">>), JAbsent>>, <<JStr(<<" ", "7">>), JAbsent>>,
      <<JStr(<<"a">>), JAbsent>>, <<JStr(<<>>), JAbsent>>,
      <<JBool(TRUE), JAbsent>>, <<JNested, JAbsent>> }

\* numeric uptime inputs: -0.5, 0, 0.25, 1, 1.0001, 1.5, 95, 100, 150
UptimeNumbers ==
    { -500000, 0, 250000, Unit, 1000100, 1500000, 95 * Unit, 100 * Unit, 150 * Unit }

\* <<uptime, up, is_up>>
UptimeValues ==
    { <<JNum(v), JAbsent, JAbsent>> : v \in UptimeNumbers } \cup
    { <<JBool(TRUE), JAbsent, JAbsent>>, <<JBool(FALSE), JAbsent, JAbsent>>,
      <<JStr(<<"9", "5">>), JAbsent, JAbsent>>, <<JStr(<<"a">>), JAbsent, JAbsent>>,
      <<JNested, JAbsent, JAbsent>>, <<JAbsent, JAbsent, JAbsent>>,
      <<JNull, JBool(TRUE), JAbsent>>, <<JAbsent, JAbsent, JBool(FALSE)>>,
      <<JAbsent, JNull, JBool(TRUE)>>, <<JAbsent, JNum(95 * Unit), JBool(FALSE)>>,
      <<JNum(0), JBool(TRUE), JAbsent>> }

\* each field varied against a well-formed row, and two rows with two bad fields
Rows ==
    { Row(r, JNum(100 * Unit), JAbsent, JNum(95 * Unit), JAbsent, JAbsent) : r \in RegionValues } \cup
    { Row(JStr(<<"a">>), l[1], l[2], JNum(95 * Unit), JAbsent, JAbsent) : l \in LatencyValues } \cup
    { Row(JStr(<<"b">>), JNum(100 * Unit), JAbsent, u[1], u[2], u[3]) : u \in UptimeValues } \cup
    { Row(JStr(<<" ">>), JAbsent, JAbsent, JAbsent, JAbsent, JAbsent),
      Row(JNum(5 * Unit), JAbsent, JAbsent, JAbsent, JAbsent, JAbsent) }

load_any_row == load_row(Rows)

NextLoad ==
    \/ find_data_file_raises
    \/ load_open_jsonl
    \/ load_open_json
    \/ load_not_a_list
    \/ load_blank_line
    \/ load_any_row
    \/ load_return

SpecLoad == Init /\ [][NextLoad]_vars

----------------------------------------------------------------------------
(* SpecEngine: compute_for_region on loaded datasets of up to MaxN records *)

Rec(region, latency_ms, uptime) == [region |-> region, latency_ms |-> latency_ms, uptime |-> uptime]

ShortRecords ==
    { Rec(r, l, u) : r \in {<<"a">>, <<"b">>}, l \in {100 * Unit, 1234567},
                     u \in {None, Some(0), Some(Unit)} }

\* record i of the long dataset (seed, stride, bmod): latencies are pairwise
\* different multiples of 1.012345, every fourth uptime is null
PatternRecord(i, seed, stride, bmod) ==
    Rec(IF bmod # 0 /\ (i + seed) % bmod = 0 THEN <<"b">> ELSE <<"a">>,
        ((7 * seed + stride * i) % 23) * 1012345,
        CASE (i + seed) % 4 = 0 -> None
          [] (i + seed) % 4 = 1 -> Some(Unit)
          [] (i + seed) % 4 = 2 -> Some(990000)
          [] OTHER -> Some(0))

PatternData(n, seed, stride, bmod) == [i \in 1..n |-> PatternRecord(i, seed, stride, bmod)]

EngineDatasets ==
    UNION {[1..k -> ShortRecords] : k \in 1..MaxShort} \cup
    { PatternData(n, seed, stride, bmod) :
        n \in 1..MaxN, seed \in 0..2, stride \in {1, 5}, bmod \in {0, 11} }

EngineRegions == {<<"a">>, <<" ", "A", " ">>, <<"B">>, <<"a", "b">>}
EngineThresholds == {Unit, 100 * Unit, 10 * 1012345}

InitEngine ==
    /\ phase = "serving"
    /\ present = {1}
    /\ path = 1
    /\ rows = <<>>
    /\ blanks = 0
    /\ RECORDS \in EngineDatasets
    /\ records = RECORDS
    /\ loc = NoLocals
    /\ failure = "none"
    /\ req = [w \in Workers |-> IdleReq]
    /\ call = NoCall

engine_call ==
    /\ phase = "serving"
    /\ call.state = "none"
    /\ \E region \in EngineRegions, threshold_ms \in EngineThresholds :
         call' = [state |-> "returned", region |-> region, threshold_ms |-> threshold_ms,
                  ret |-> compute_for_region(region, threshold_ms)]
    /\ UNCHANGED <<phase, present, path, rows, blanks, records, loc, failure, RECORDS, req>>

NextEngine == engine_call

SpecEngine == InitEngine /\ [][NextEngine]_vars

----------------------------------------------------------------------------
(* Claims *)

\* C1: once load_records has produced RECORDS, no step of any request, valid
\* or invalid, on any worker, changes RECORDS (length, order, every field).
C1_RecordsNeverChange == [][phase = "serving" => RECORDS' = RECORDS]_vars

\* both workers are inside post_metrics at once, each with a region computed
C1_Witness ==
    /\ phase = "serving"
    /\ RECORDS # <<>>
    /\ \A w \in Workers : req[w].pc = "running" /\ req[w].calls >= 1

\* C2: a missing data file or a file with zero accepted records ends the
\* import; a request is handled only with RECORDS loaded and non-empty.
C2_StartupFatal ==
    /\ (present = {} /\ phase # "init" => phase = "failed")
    /\ (phase = "serving" => RECORDS # <<>>)
    /\ (phase = "failed" => RECORDS = <<>>)
    /\ \A w \in Workers : req[w].pc # "idle" => phase = "serving" /\ Len(RECORDS) >= 1

\* the file had rows, none was accepted, and the import failed
C2_Witness ==
    /\ phase = "failed"
    /\ failure = "RuntimeError: no usable rows"
    /\ rows # <<>>
    /\ \A w \in Workers : req[w].pc = "idle"

\* the elements of s, each kept at its first occurrence only
RECURSIVE FirstOccurrences(_)
FirstOccurrences(s) ==
    IF s = <<>> THEN <<>>
    ELSE LET init == FirstOccurrences(SubSeq(s, 1, Len(s) - 1)) IN
         IF \E j \in 1..Len(init) : init[j] = s[Len(s)] THEN init ELSE Append(init, s[Len(s)])

\* C3 as stated: the response has one entry per input element, the j-th keyed
\* by the j-th input string, duplicates included.
C3_OneEntryPerElement ==
    \A w \in Workers :
        req[w].pc = "done" =>
            /\ Len(req[w].out) = Len(req[w].regions)
            /\ \A j \in 1..Len(req[w].regions) : req[w].out[j].key = req[w].regions[j]

\* C3 amended: the regions are processed in order and the response has one
\* entry per distinct literal input string, keyed by the unnormalized string,
\* in order of first occurrence; a repeated string overwrites its own entry.
C3_OneEntryPerDistinctString ==
    \A w \in Workers :
        req[w].pc \in {"running", "done"} =>
            /\ req[w].calls = req[w].i - 1
            /\ Project(req[w].out, "key") = FirstOccurrences(SubSeq(req[w].regions, 1, req[w].i - 1))
            /\ (req[w].pc = "done" => req[w].i = Len(req[w].regions) + 1)

\* a response to ["a", "a"] with a single entry
C3_Witness ==
    \E w \in Workers :
        /\ req[w].pc = "done"
        /\ req[w].regions = << <<"a">>, <<"a">> >>
        /\ Len(req[w].out) = 1

\* C4: a request with no regions or with threshold_ms <= 0 is rejected
\* before compute_for_region runs: no result for it, RECORDS as loaded.
C4_InvalidRejectedBeforeCompute ==
    \A w \in Workers :
        (req[w].pc # "idle" /\ (Len(req[w].regions) = 0 \/ req[w].threshold_ms <= 0)) =>
            /\ req[w].pc = "rejected"
            /\ req[w].calls = 0
            /\ req[w].out = <<>>
            /\ RECORDS = records

\* threshold_ms = 0 with a region given is rejected while the other worker computes
C4_Witness ==
    \E w \in Workers, v \in Workers :
        /\ req[w].pc = "rejected"
        /\ req[w].threshold_ms = 0
        /\ Len(req[w].regions) >= 1
        /\ req[v].pc = "running"

\* C5 as stated: no exception leaves _ingest_row, whatever the row's fields.
C5_NoExceptionEscapes == ~loc.raised /\ failure # "AttributeError"

\* the Normalizer's acceptance rule, as the claim states it
ClaimRegion(row) == IF row.region.t = "str" THEN strip(row.region.s) ELSE <<>>
ClaimLatency(row) == IF row.latency_ms.t = "absent" THEN row.latency ELSE row.latency_ms
ClaimAccepts(row) == ClaimRegion(row) # <<>> /\ float(ClaimLatency(row)).ok
ClaimAccepted(rs) == SelectSeq(rs, ClaimAccepts)

\* C6: the dataset is the subsequence, in file order, of the rows with a
\* non-blank region and a latency (latency_ms, else latency) that coerces to
\* a number; the stored region is trimmed and lowercased.
C6_DatasetIsAcceptedSubsequence ==
    phase \in {"loading", "serving"} =>
        LET acc == ClaimAccepted(rows) IN
        /\ Len(records) = Len(acc)
        /\ \A j \in 1..Len(acc) :
              /\ records[j].region = lower(ClaimRegion(acc[j]))
              /\ records[j].latency_ms = float(ClaimLatency(acc[j])).f
        /\ (phase = "serving" => RECORDS = records)

\* loaded: a row with latency under "latency" only is kept, one with neither is not
C6_Witness ==
    /\ phase = "serving"
    /\ Len(rows) = 2
    /\ Len(RECORDS) = 1
    /\ rows[1].latency_ms.t = "absent" /\ rows[1].latency.t = "absent" /\ rows[1].region.t = "str"
    /\ rows[2].latency_ms.t = "absent" /\ rows[2].latency.t = "num"

\* indices of the records matching a requested region
Matching(region) == {j \in 1..Len(RECORDS) : RECORDS[j].region = lower(strip(region))}

\* the nearest-rank index of the claim, for n >= 1 values
RankIndex(n) == Max(0, Min(n - 1, Ceil(95 * n, 100) - 1))

\* v is the element at 0-based index k of the matching latencies sorted ascending
IsAtSortedIndex(M, v, k) ==
    /\ \E j \in M : RECORDS[j].latency_ms = v
    /\ Cardinality({j \in M : RECORDS[j].latency_ms < v}) <= k
    /\ Cardinality({j \in M : RECORDS[j].latency_ms <= v}) >= k + 1

\* C7 as stated: p95_latency is the element at the nearest-rank index, an
\* actual element of the data; 0.0 without matching records.
C7_P95IsAnElement ==
    call.state = "returned" =>
        LET M == Matching(call.region) IN
        IF M = {} THEN call.ret.p95_latency = 0
        ELSE IsAtSortedIndex(M, call.ret.p95_latency, RankIndex(Cardinality(M)))

\* C7 amended: p95_latency is the element at the nearest-rank index rounded
\* to 4 decimal places; 0.0 without matching records.
C7_P95IsElementRounded ==
    call.state = "returned" =>
        LET M == Matching(call.region) IN
        IF M = {} THEN call.ret.p95_latency = 0
        ELSE \E j \in M :
                /\ IsAtSortedIndex(M, RECORDS[j].latency_ms, RankIndex(Cardinality(M)))
                /\ call.ret.p95_latency % 100 = 0
                /\ 2 * (call.ret.p95_latency - RECORDS[j].latency_ms) <= 100
                /\ 2 * (RECORDS[j].latency_ms - call.ret.p95_latency) <= 100

\* 20 matching records: the index is 18, not the last one
C7_Witness ==
    /\ call.state = "returned"
    /\ Cardinality(Matching(call.region)) = 20
    /\ \E j \in Matching(call.region) : RECORDS[j].latency_ms > call.ret.p95_latency + 100

\* the matching records whose uptime is not null
Eligible(region) == {j \in Matching(region) : ~RECORDS[j].uptime.none}

RECURSIVE SumOver(_, _)
SumOver(S, field) ==
    IF S = {} THEN 0
    ELSE LET j == CHOOSE x \in S : TRUE IN
         (IF field = "uptime" THEN RECORDS[j].uptime.f ELSE RECORDS[j].latency_ms)
         + SumOver(S \ {j}, field)

\* C8 as stated: avg_uptime is the arithmetic mean of the non-null uptimes of
\* the matching records; 0.0 when there is none.
C8_AvgUptimeIsMean ==
    call.state = "returned" =>
        LET E == Eligible(call.region) IN
        IF E = {} THEN call.ret.avg_uptime = 0
        ELSE call.ret.avg_uptime * Cardinality(E) = SumOver(E, "uptime")

\* C8 amended: avg_uptime is that mean rounded to 6 decimal places; records
\* with null uptime are in neither numerator nor denominator.
C8_AvgUptimeIsMeanRounded ==
    call.state = "returned" =>
        LET E == Eligible(call.region) IN
        IF E = {} THEN call.ret.avg_uptime = 0
        ELSE /\ 2 * (call.ret.avg_uptime * Cardinality(E) - SumOver(E, "uptime")) <= Cardinality(E)
             /\ 2 * (SumOver(E, "uptime") - call.ret.avg_uptime * Cardinality(E)) <= Cardinality(E)

\* matching records with and without uptime, and a non-zero average
C8_Witness ==
    /\ call.state = "returned"
    /\ Eligible(call.region) # {}
    /\ Eligible(call.region) # Matching(call.region)
    /\ call.ret.avg_uptime > 0

\* C9: breaches is the number of matching records (region compared after
\* trim and lowercase, exactly) with latency_ms strictly above threshold_ms.
C9_BreachesStrictlyGreater ==
    call.state = "returned" =>
        call.ret.breaches =
            Cardinality({j \in Matching(call.region) : RECORDS[j].latency_ms > call.threshold_ms})

\* region " A ", one match at the threshold and one above it
C9_Witness ==
    /\ call.state = "returned"
    /\ call.region = <<" ", "A", " ">>
    /\ \E j \in Matching(call.region) : RECORDS[j].latency_ms = call.threshold_ms
    /\ call.ret.breaches >= 1
    /\ call.ret.breaches < Cardinality(Matching(call.region))

UptimeInRange(u) == u.none \/ (0 <= u.f /\ u.f <= Unit)

\* C10: coerce_uptime on a number v gives v for v in [0, 1], v / 100 for v in
\* (1, 100], always a value in [0, 1]; every record's uptime is null or in [0, 1].
C10_UptimeCoercion ==
    /\ (~loc.raised /\ loc.up.t = "num" =>
           /\ ~loc.uptime.none
           /\ 0 <= loc.uptime.f /\ loc.uptime.f <= Unit
           /\ (0 <= loc.up.n /\ loc.up.n <= Unit => loc.uptime.f = loc.up.n)
           /\ (Unit < loc.up.n /\ loc.up.n <= 100 * Unit => 100 * loc.uptime.f = loc.up.n))
    /\ \A j \in 1..Len(records) : UptimeInRange(records[j].uptime)
    /\ \A j \in 1..Len(RECORDS) : UptimeInRange(RECORDS[j].uptime)

\* a row with uptime 95 was stored with uptime 0.95, after one with uptime 150
C10_Witness ==
    /\ loc.appended
    /\ loc.up = JNum(95 * Unit)
    /\ loc.uptime = Some(950000)
    /\ Len(rows) = 2
    /\ rows[1].uptime = JNum(150 * Unit)

=============================================================================
